---- MODULE Spec2Model ----
(***************************************************************************)
(* Appointment creation pipeline (create_appointment.py) and notification  *)
(* dispatcher (send_reminder.py) of the landscaping application.           *)
(***************************************************************************)
EXTENDS Integers, Sequences, FiniteSets, TLC

VARIABLES
    store,      \* appointments table: set of items keyed by appointment_id
    req,        \* per create request: position in handler and its locals
    sendlog,    \* send-logs table: notification_id -> entry (or NoEntry)
    cons,       \* per consumer instance: position in handler and its locals
    prefs,      \* preferences table: user_id -> item (read only here)
    deliveries, \* number of handler invocations started by the queue
    sends,      \* history: provider sends that succeeded, per message and channel
    hist,       \* history: per notification_id, the invocations that inserted
                \* its entry, called a sender for it, updated its entry
    services,   \* services table: pk -> row (priority, and how it was created)
    backfill,   \* the backfill_priority command: position in handle, batch_pks
    tracking,   \* weather tracking table: tracking_id -> row
    wcache,     \* weather cache table: postcode -> the days last written
    wx          \* the weather refresh: position in handler, its locals, and
                \* history: per run, the locations cached and those that failed

vars == <<store, req, sendlog, cons, prefs, deliveries, sends, hist,
          services, backfill, tracking, wcache, wx>>

createVars == <<store, req>>
dispatchVars == <<sendlog, cons, prefs, deliveries, sends, hist>>
serviceVars == <<services, backfill>>
weatherVars == <<tracking, wcache, wx>>
jobVars == <<serviceVars, weatherVars>>

----------------------------------------------------------------------------
(* Bounds of the model *)

NumReq == 2           \* concurrent create requests
NumConsumers == 2     \* concurrent consumer instances of the dispatcher
MaxDeliveries == 2    \* handler invocations the queue starts in one run
MaxServices == 3      \* rows ever inserted into the services table
BatchSize == 2        \* BATCH_SIZE of backfill_priority, scaled to the table
MaxRuns == 2          \* invocations of the weather refresh, one after the other

None == "<none>"
Requests == 1 .. NumReq
Consumers == 1 .. NumConsumers

Digit == <<"0", "1", "2", "3", "4", "5", "6", "7", "8", "9">>
TwoDigit(n) == Digit[(n \div 10) + 1] \o Digit[(n % 10) + 1]
\* uuid.uuid4().hex: the k-th value drawn by invocation n; no two draws agree
UuidHex(n, k) == Digit[n + 1] \o Digit[k + 1]

----------------------------------------------------------------------------
(* create_appointment.py : pure helpers *)

\* A datetime string: parses says whether datetime.fromisoformat accepts it;
\* naive says that it carries no zone offset; off is its offset in hours.
DateTimeStr(day, hour, naive, off) ==
    [parses |-> TRUE, day |-> day, hour |-> hour, naive |-> naive, off |-> off]
NotADate == [parses |-> FALSE, day |-> 0, hour |-> 0, naive |-> TRUE, off |-> 0]

\* the wall-clock reading kept, whatever the offset
ToUtcWallClock(dt_str) == dt_str.day * 24 + dt_str.hour

\* to_utc: hours since the start of the month, shifted to UTC; a naive value is
\* taken as UTC.  Defined only when the string parses.
to_utc(dt_str) ==
    dt_str.day * 24 + dt_str.hour - (IF dt_str.naive THEN 0 ELSE dt_str.off)

\* datetime.isoformat() of a UTC datetime
isoformat(instant) ==
    "2025-01-" \o TwoDigit(instant \div 24) \o "T" \o TwoDigit(instant % 24)
        \o ":00:00+00:00"

MaxNotes == 1024

required_fields == <<"client_id", "service_id", "scheduled_at", "location">>

\* payload.get("notes", "") : notes are modelled by their length; a value
\* that is not a string (JSON null, a number) by NotAString
PayloadNotes(payload) == IF "notes" \in DOMAIN payload THEN payload["notes"] ELSE 0
NotAString == 0 - 1

\* response(status, body, correlation_id)
response(status, body, correlation_id) ==
    [statusCode |-> status,
     headers |-> [XCorrelationId |-> correlation_id],
     body |-> [data |-> body, correlation_id |-> correlation_id]]

ErrorBody(msg) == [error |-> msg, fields |-> <<>>]

\* validation without the scheduled_at check
ValidateUnparsed(payload, correlation_id) ==
    LET missing == SelectSeq(required_fields, LAMBDA f : f \notin DOMAIN payload)
    IN  IF missing /= <<>>
        THEN <<FALSE, response(400, [error |-> "Missing required fields",
                                     fields |-> missing], correlation_id), FALSE>>
        ELSE IF PayloadNotes(payload) = NotAString
        THEN <<FALSE, None, TRUE>>
        ELSE IF PayloadNotes(payload) > MaxNotes
        THEN <<FALSE, response(400,
                 ErrorBody("notes must not exceed 1024 characters"),
                 correlation_id), FALSE>>
        ELSE <<TRUE, None, FALSE>>

\* validation that reports the first missing field only
ValidateFirstMissing(payload, correlation_id) ==
    LET missing == SelectSeq(required_fields, LAMBDA f : f \notin DOMAIN payload)
    IN  IF missing /= <<>>
        THEN <<FALSE, response(400, [error |-> "Missing required fields",
                                     fields |-> <<Head(missing)>>],
                               correlation_id), FALSE>>
        ELSE IF ~payload["scheduled_at"].parses
        THEN <<FALSE, response(400,
                 ErrorBody("scheduled_at must be valid ISO-8601 datetime"),
                 correlation_id), FALSE>>
        ELSE IF PayloadNotes(payload) = NotAString
        THEN <<FALSE, None, TRUE>>
        ELSE IF PayloadNotes(payload) > MaxNotes
        THEN <<FALSE, response(400,
                 ErrorBody("notes must not exceed 1024 characters"),
                 correlation_id), FALSE>>
        ELSE <<TRUE, None, FALSE>>

\* validation that checks the length of notes before anything else
ValidateNotesFirst(payload, correlation_id) ==
    LET missing == SelectSeq(required_fields, LAMBDA f : f \notin DOMAIN payload)
    IN  IF PayloadNotes(payload) > MaxNotes
        THEN <<FALSE, response(400,
                 ErrorBody("notes must not exceed 1024 characters"),
                 correlation_id), FALSE>>
        ELSE IF missing /= <<>>
        THEN <<FALSE, response(400, [error |-> "Missing required fields",
                                     fields |-> missing], correlation_id), FALSE>>
        ELSE IF ~payload["scheduled_at"].parses
        THEN <<FALSE, response(400,
                 ErrorBody("scheduled_at must be valid ISO-8601 datetime"),
                 correlation_id), FALSE>>
        ELSE IF PayloadNotes(payload) = NotAString
        THEN <<FALSE, None, TRUE>>
        ELSE <<TRUE, None, FALSE>>

\* validate_payload: <<is_valid, error_response, raised>>.  raised says that
\* validate_payload does not return: len(notes) raises TypeError, which
\* nothing in validate_payload or handler catches.
validate_payload(payload, correlation_id) ==
    LET missing == SelectSeq(required_fields, LAMBDA f : f \notin DOMAIN payload)
    IN  IF missing /= <<>>
        THEN <<FALSE, response(400, [error |-> "Missing required fields",
                                     fields |-> missing], correlation_id), FALSE>>
        ELSE IF ~payload["scheduled_at"].parses
        THEN <<FALSE, response(400,
                 ErrorBody("scheduled_at must be valid ISO-8601 datetime"),
                 correlation_id), FALSE>>
        ELSE IF PayloadNotes(payload) = NotAString
        THEN <<FALSE, None, TRUE>>
        ELSE IF PayloadNotes(payload) > MaxNotes
        THEN <<FALSE, response(400,
                 ErrorBody("notes must not exceed 1024 characters"),
                 correlation_id), FALSE>>
        ELSE <<TRUE, None, FALSE>>

\* header names compared by k.lower()
Lower(name) ==
    IF name \in {"X-Correlation-Id", "x-correlation-id", "X-CORRELATION-ID"}
    THEN "x-correlation-id" ELSE name

\* get_header: the value of a header whose lowered name matches, else None
get_header(event, name) ==
    LET hs == event.headers
        ks == {k \in DOMAIN hs : Lower(k) = Lower(name)}
    IN  IF ks = {} THEN None ELSE hs[CHOOSE k \in ks : TRUE]

\* Upstream answers to a lookup call
UpstreamKinds == {"200", "404", "500", "timeout", "error"}

\* the error_response of a lookup that returned no error (None)
NoError == [error |-> None]

\* validate_client: <<exists, error_response>> from the upstream answer
validate_client(client_id, kind) ==
    CASE kind = "404" -> <<FALSE, [error |-> "Client not found",
                                   client_id |-> client_id]>>
      [] kind = "200" -> <<TRUE, NoError>>
      [] kind = "timeout" ->
            <<FALSE, [error |-> "Service timeout",
                      details |-> "User service did not respond in time"]>>
      [] kind = "error" ->
            <<FALSE, [error |-> "Internal error",
                      details |-> "Failed to validate client"]>>
      [] OTHER ->
            <<FALSE, [error |-> "Failed to verify client",
                      details |-> "User service returned status " \o kind]>>

ServicesUrlConfigured == TRUE

\* validate_service: <<exists, error_response>> from the upstream answer
validate_service(service_id, kind) ==
    IF ~ServicesUrlConfigured
    THEN <<FALSE, [error |-> "Service configuration error",
                   details |-> "Services service unavailable"]>>
    ELSE CASE kind = "404" -> <<FALSE, [error |-> "Service not found",
                                        service_id |-> service_id]>>
           [] kind = "200" -> <<TRUE, NoError>>
           [] kind = "timeout" ->
                 <<FALSE, [error |-> "Service timeout",
                           details |-> "Services service did not respond in time"]>>
           [] kind = "error" ->
                 <<FALSE, [error |-> "Internal error",
                           details |-> "Failed to validate service"]>>
           [] OTHER ->
                 <<FALSE, [error |-> "Failed to verify service",
                           details |-> "Services service returned status " \o kind]>>

\* "not found" in error["error"].lower()
ContainsNotFound(err) == err.error \in {"Client not found", "Service not found"}

\* every failed lookup reported as unavailable
UpstreamStatusUnavailable(err) == 503

\* 404 if "not found" in error["error"].lower() else 503
UpstreamStatus(err) == IF ContainsNotFound(err) THEN 404 ELSE 503

\* uniq_key = f"UNIQ#{client_id}#{service_id}#{scheduled_iso}#{location}"
UniqKey(client_id, service_id, scheduled_iso, location) ==
    "UNIQ#" \o client_id \o "#" \o service_id \o "#" \o scheduled_iso
        \o "#" \o location

ApptItem(appointment_id, payload, scheduled_iso, correlation_id) ==
    [appointment_id |-> appointment_id,
     type |-> "appointment",
     client_id |-> payload["client_id"],
     service_id |-> payload["service_id"],
     scheduled_at |-> scheduled_iso,
     location |-> payload["location"],
     status |-> "scheduled",
     notes |-> PayloadNotes(payload),
     weather_risk |-> "unknown",
     correlation_id |-> correlation_id,
     ref_appointment_id |-> None]

UniqItem(uniq_key, appointment_id) ==
    [appointment_id |-> uniq_key,
     type |-> "uniqueness_marker",
     client_id |-> None,
     service_id |-> None,
     scheduled_at |-> None,
     location |-> None,
     status |-> None,
     notes |-> 0,
     weather_risk |-> None,
     correlation_id |-> None,
     ref_appointment_id |-> appointment_id]

StoreKeys(tbl) == {it.appointment_id : it \in tbl}

\* a Put whose condition is not evaluated
AttributeNotExistsUnchecked(tbl, item) == TRUE

\* a condition that counts the marker of a cancelled appointment as absent
AttributeNotExistsOrCancelled(tbl, item) ==
    \A it \in tbl :
        it.appointment_id = item.appointment_id =>
            \E rec \in tbl : /\ rec.appointment_id = it.ref_appointment_id
                             /\ rec.status = "cancelled"

\* ConditionExpression attribute_not_exists(appointment_id) of one Put
AttributeNotExists(tbl, item) == item.appointment_id \notin StoreKeys(tbl)

\* Faults the store can answer a transaction with, whatever the items are:
\* a cancellation for a reason other than a failed condition, another service
\* error code, or a failure below the service (no ClientError is built).
StoreFaults == {"Throttled", "InternalServerError", "EndpointConnectionError"}

\* two independent conditional puts in place of one transaction: each item is
\* written when its own condition holds
TwoConditionalPuts(tbl, items, fault) ==
    CASE fault = "Throttled" ->
            [exc |-> "ClientError", code |-> "TransactionCanceledException",
             reason |-> "ThrottlingError", tbl |-> tbl]
      [] fault = "InternalServerError" ->
            [exc |-> "ClientError", code |-> "InternalServerError",
             reason |-> None, tbl |-> tbl]
      [] fault = "EndpointConnectionError" ->
            [exc |-> "BotoCoreError", code |-> None, reason |-> None, tbl |-> tbl]
      [] OTHER ->
            LET ok == {i \in 1 .. Len(items) :
                          items[i].appointment_id \notin
                              {it.appointment_id : it \in tbl}}
            IN  IF ok /= {}
                THEN [exc |-> "none", code |-> None, reason |-> None,
                      tbl |-> tbl \cup {items[i] : i \in ok}]
                ELSE [exc |-> "ClientError",
                      code |-> "TransactionCanceledException",
                      reason |-> "ConditionalCheckFailed", tbl |-> tbl]

\* ddb_client.transact_write_items: the answer of the store.  exc is the
\* exception class raised ("none", "ClientError", "BotoCoreError"), code the
\* error code of a ClientError, reason the cancellation reason.
transact_write_items(tbl, items, fault) ==
    CASE fault = "Throttled" ->
            [exc |-> "ClientError", code |-> "TransactionCanceledException",
             reason |-> "ThrottlingError", tbl |-> tbl]
      [] fault = "InternalServerError" ->
            [exc |-> "ClientError", code |-> "InternalServerError",
             reason |-> None, tbl |-> tbl]
      [] fault = "EndpointConnectionError" ->
            [exc |-> "BotoCoreError", code |-> None, reason |-> None, tbl |-> tbl]
      [] OTHER ->
            IF \A i \in 1 .. Len(items) : AttributeNotExists(tbl, items[i])
            THEN [exc |-> "none", code |-> None, reason |-> None,
                  tbl |-> tbl \cup {items[i] : i \in 1 .. Len(items)}]
            ELSE [exc |-> "ClientError", code |-> "TransactionCanceledException",
                  reason |-> "ConditionalCheckFailed", tbl |-> tbl]

\* the except ClientError branch of create_appointment: <<status, body>>
CreateErrorResult(error_code) ==
    IF error_code \in {"TransactionCanceledException", "ConditionalCheckFailedException"}
    THEN <<409, ErrorBody("Appointment already exists for this client, service, and time slot")>>
    ELSE <<500, ErrorBody("Failed to create appointment")>>

----------------------------------------------------------------------------
(* create_appointment.py : requests and the steps of handler *)

Hdr(name, value) == [k \in {name} |-> value]
NoHeaders == [k \in {} |-> None]

Payload(client_id, service_id, scheduled_at, location) ==
    [f \in {"client_id", "service_id", "scheduled_at", "location"} |->
        CASE f = "client_id" -> client_id
          [] f = "service_id" -> service_id
          [] f = "scheduled_at" -> scheduled_at
          [] OTHER -> location]

WithNotes(payload, n) ==
    [f \in DOMAIN payload \cup {"notes"} |-> IF f = "notes" THEN n ELSE payload[f]]

Without(payload, field) == [f \in DOMAIN payload \ {field} |-> payload[f]]

JsonBody(payload) == [json |-> TRUE, payload |-> payload]
InvalidJson == [json |-> FALSE, payload |-> [f \in {} |-> None]]

\* 2025-01-02T10:00:00 written without offset, with +00:00 and with +01:00
TenNaive == DateTimeStr(2, 10, TRUE, 0)
TenUtc == DateTimeStr(2, 10, FALSE, 0)
ElevenPlusOne == DateTimeStr(2, 11, FALSE, 1)

PayloadA == Payload("c1", "s1", TenNaive, "L1")
PayloadB == Payload("c1", "s1", ElevenPlusOne, "L1")
\* two different (client, service) pairs around the separator character
PayloadX == Payload("c2", "s2#s2", TenUtc, "L1")
PayloadY == Payload("c2#s2", "s2", TenUtc, "L1")

\* Requests sent to the create endpoint
CreateEvents ==
    { [headers |-> Hdr("X-Correlation-Id", "hdr-1"), body |-> JsonBody(PayloadA)],
      [headers |-> NoHeaders, body |-> JsonBody(PayloadB)],
      [headers |-> NoHeaders, body |-> JsonBody(PayloadX)],
      [headers |-> Hdr("x-correlation-id", "hdr-2"), body |-> JsonBody(PayloadY)],
      [headers |-> NoHeaders, body |-> InvalidJson],
      [headers |-> NoHeaders,
       body |-> JsonBody(Payload("c1", "s1", NotADate, "L1"))],
      [headers |-> Hdr("X-Correlation-Id", ""),
       body |-> JsonBody(WithNotes(Without(PayloadA, "location"), 2000))] }

\* Upstream answers drawn when several requests race: found and not found
\* (every answer is drawn where the lookups are the subject)
RaceKinds == {"200", "404"}

NoResponse == response(0, ErrorBody(None), None)
\* a lookup task: answer is what the upstream gave to requests.get
NoLookup == [done |-> FALSE, answer |-> None, exists |-> FALSE, error |-> NoError]
NoTxn == [exc |-> None, code |-> None, reason |-> None, fault |-> None,
          marker_existed |-> FALSE]

IdleRequest ==
    [pc |-> "idle", event |-> [headers |-> NoHeaders, body |-> InvalidJson],
     correlation_id |-> None, client |-> NoLookup, service |-> NoLookup,
     scheduled_iso |-> None, appointment_id |-> None, uniq_key |-> None,
     txn |-> NoTxn, resp |-> NoResponse]

\* handler, lines 454-489: correlation id, JSON parse, validate_payload
CreateHandler(r, event) ==
    /\ req[r].pc = "idle"
    /\ LET hv == get_header(event, "X-Correlation-Id")
           correlation_id == IF hv \notin {None, ""} THEN hv
                             ELSE "cor-" \o UuidHex(r, 0)
           payload == event.body.payload
           valid == validate_payload(payload, correlation_id)
       IN  req' = [req EXCEPT ![r] =
              IF ~event.body.json
              THEN [@ EXCEPT !.pc = "done", !.event = event,
                             !.correlation_id = correlation_id,
                             !.resp = response(400, ErrorBody("Invalid JSON body"),
                                               correlation_id)]
              ELSE IF valid[3]
              THEN \* TypeError leaves handler: no response is made
                   [@ EXCEPT !.pc = "crashed", !.event = event,
                             !.correlation_id = correlation_id]
              ELSE IF ~valid[1]
              THEN [@ EXCEPT !.pc = "done", !.event = event,
                             !.correlation_id = correlation_id,
                             !.resp = valid[2]]
              ELSE [@ EXCEPT !.pc = "lookup", !.event = event,
                             !.correlation_id = correlation_id,
                             !.scheduled_iso =
                                 isoformat(to_utc(payload["scheduled_at"]))]]
    /\ UNCHANGED <<store, dispatchVars, jobVars>>

\* executor.submit(validate_client, ...) : the task of the client lookup
ValidateClient(r, kind) ==
    /\ req[r].pc = "lookup"
    /\ ~req[r].client.done
    /\ LET res == validate_client(req[r].event.body.payload["client_id"], kind)
       IN  req' = [req EXCEPT ![r].client =
                      [done |-> TRUE, answer |-> kind, exists |-> res[1],
                       error |-> res[2]]]
    /\ UNCHANGED <<store, dispatchVars, jobVars>>

\* executor.submit(validate_service, ...) : the task of the service lookup
ValidateService(r, kind) ==
    /\ req[r].pc = "lookup"
    /\ ~req[r].service.done
    /\ LET res == validate_service(req[r].event.body.payload["service_id"], kind)
       IN  req' = [req EXCEPT ![r].service =
                      [done |-> TRUE, answer |-> kind, exists |-> res[1],
                       error |-> res[2]]]
    /\ UNCHANGED <<store, dispatchVars, jobVars>>

\* the outcome decided as soon as the client lookup has failed, the service
\* lookup not awaited
JoinAfterClient(r) ==
    /\ req[r].pc = "lookup"
    /\ req[r].client.done
    /\ req[r].service.done \/ ~req[r].client.exists
    /\ LET q == req[r]
           payload == q.event.body.payload
       IN  req' = [req EXCEPT ![r] =
              IF ~q.client.exists
              THEN [@ EXCEPT !.pc = "done",
                             !.resp = response(UpstreamStatus(q.client.error),
                                               q.client.error,
                                               q.correlation_id)]
              ELSE IF ~q.service.exists
              THEN [@ EXCEPT !.pc = "done",
                             !.resp = response(UpstreamStatus(q.service.error),
                                               q.service.error,
                                               q.correlation_id)]
              ELSE [@ EXCEPT !.pc = "write",
                             !.appointment_id = "apt_" \o UuidHex(r, 1),
                             !.uniq_key = UniqKey(payload["client_id"],
                                                  payload["service_id"],
                                                  q.scheduled_iso,
                                                  payload["location"])]]
    /\ UNCHANGED <<store, dispatchVars, jobVars>>

\* the outcome decided from the service lookup first
JoinServiceFirst(r) ==
    /\ req[r].pc = "lookup"
    /\ req[r].client.done /\ req[r].service.done
    /\ LET q == req[r]
           payload == q.event.body.payload
       IN  req' = [req EXCEPT ![r] =
              IF ~q.service.exists
              THEN [@ EXCEPT !.pc = "done",
                             !.resp = response(UpstreamStatus(q.service.error),
                                               q.service.error,
                                               q.correlation_id)]
              ELSE IF ~q.client.exists
              THEN [@ EXCEPT !.pc = "done",
                             !.resp = response(UpstreamStatus(q.client.error),
                                               q.client.error,
                                               q.correlation_id)]
              ELSE [@ EXCEPT !.pc = "write",
                             !.appointment_id = "apt_" \o UuidHex(r, 1),
                             !.uniq_key = UniqKey(payload["client_id"],
                                                  payload["service_id"],
                                                  q.scheduled_iso,
                                                  payload["location"])]]
    /\ UNCHANGED <<store, dispatchVars, jobVars>>

\* create_appointment, lines 352-386: both futures joined, the outcome of the
\* lookups decided, the two items prepared
JoinLookups(r) ==
    /\ req[r].pc = "lookup"
    /\ req[r].client.done /\ req[r].service.done
    /\ LET q == req[r]
           payload == q.event.body.payload
       IN  req' = [req EXCEPT ![r] =
              IF ~q.client.exists
              THEN [@ EXCEPT !.pc = "done",
                             !.resp = response(UpstreamStatus(q.client.error),
                                               q.client.error,
                                               q.correlation_id)]
              ELSE IF ~q.service.exists
              THEN [@ EXCEPT !.pc = "done",
                             !.resp = response(UpstreamStatus(q.service.error),
                                               q.service.error,
                                               q.correlation_id)]
              ELSE [@ EXCEPT !.pc = "write",
                             !.appointment_id = "apt_" \o UuidHex(r, 1),
                             !.uniq_key = UniqKey(payload["client_id"],
                                                  payload["service_id"],
                                                  q.scheduled_iso,
                                                  payload["location"])]]
    /\ UNCHANGED <<store, dispatchVars, jobVars>>

\* create_appointment, lines 389-451, and handler, lines 491-492: the atomic
\* write and the response made from its answer
TransactWrite(r, fault) ==
    /\ req[r].pc = "write"
    /\ LET q == req[r]
           payload == q.event.body.payload
           uniq_item == UniqItem(q.uniq_key, q.appointment_id)
           appt_item == ApptItem(q.appointment_id, payload, q.scheduled_iso,
                                 q.correlation_id)
           ans == transact_write_items(store, <<uniq_item, appt_item>>, fault)
           txn == [exc |-> ans.exc, code |-> ans.code, reason |-> ans.reason,
                   fault |-> fault,
                   marker_existed |-> q.uniq_key \in StoreKeys(store)]
           err == CreateErrorResult(ans.code)
       IN  /\ store' = ans.tbl
           /\ req' = [req EXCEPT ![r] =
                CASE ans.exc = "none" ->
                        [@ EXCEPT !.pc = "done", !.txn = txn,
                                  !.resp = response(201,
                                      [appointment_id |-> q.appointment_id,
                                       status |-> "scheduled",
                                       scheduled_at |-> q.scheduled_iso,
                                       location |-> payload["location"]],
                                      q.correlation_id)]
                  [] ans.exc = "ClientError" ->
                        [@ EXCEPT !.pc = "done", !.txn = txn,
                                  !.resp = response(err[1], err[2], q.correlation_id)]
                  [] OTHER ->
                        \* not a ClientError: nothing catches it
                        [@ EXCEPT !.pc = "crashed", !.txn = txn]]
    /\ UNCHANGED <<dispatchVars, jobVars>>

NoFault == "none"

CreateNext ==
    \E r \in Requests :
        \/ \E event \in CreateEvents : CreateHandler(r, event)
        \/ \E kind \in RaceKinds : ValidateClient(r, kind)
        \/ \E kind \in RaceKinds : ValidateService(r, kind)
        \/ JoinLookups(r)
        \/ \E fault \in StoreFaults \cup {NoFault} : TransactWrite(r, fault)

----------------------------------------------------------------------------
(* create_appointment.py : one request handled on its own, over every shape *)
(* of request                                                               *)

RequiredSet == {required_fields[i] : i \in 1 .. Len(required_fields)}

\* the payload without the fields of M
Restrict(payload, M) == [f \in DOMAIN payload \ M |-> payload[f]]

\* header maps: none, the three spellings of the name, an empty value, and
\* the header among others
TwoHeaders ==
    [k \in {"Accept", "x-correlation-id"} |->
        IF k = "Accept" THEN "application/json" ELSE "hdr-2"]
HeaderMaps ==
    { NoHeaders, Hdr("X-Correlation-Id", "hdr-1"), TwoHeaders,
      Hdr("X-CORRELATION-ID", "hdr-3"), Hdr("X-Correlation-Id", "") }

\* notes: of the longest accepted length, one character longer, of 2000
\* characters, not a string
NotesKinds == {MaxNotes, MaxNotes + 1, 2000, NotAString}

FullPayloads ==
    LET base == {Payload("c1", "s1", d, "L1") : d \in {TenNaive, NotADate}}
    IN  base \cup {WithNotes(p, n) : p \in base, n \in NotesKinds}

\* every payload with any subset of the required fields left out
SinglePayloads == {Restrict(p, M) : p \in FullPayloads, M \in SUBSET RequiredSet}

SingleEvents ==
    {[headers |-> h, body |-> JsonBody(p)] : h \in HeaderMaps, p \in SinglePayloads}
        \cup {[headers |-> h, body |-> InvalidJson] : h \in HeaderMaps}

\* one invocation of handler, every upstream answer and every store answer
SingleNext ==
    \/ \E event \in SingleEvents : CreateHandler(1, event)
    \/ \E kind \in UpstreamKinds : ValidateClient(1, kind)
    \/ \E kind \in UpstreamKinds : ValidateService(1, kind)
    \/ JoinLookups(1)
    \/ \E fault \in StoreFaults \cup {NoFault} : TransactWrite(1, fault)

----------------------------------------------------------------------------
(* create_appointment.py : concurrent valid requests, every upstream answer *)

LookupEvents == { [headers |-> NoHeaders, body |-> JsonBody(PayloadA)] }

LookupNext ==
    \E r \in Requests :
        \/ \E event \in LookupEvents : CreateHandler(r, event)
        \/ \E kind \in UpstreamKinds : ValidateClient(r, kind)
        \/ \E kind \in UpstreamKinds : ValidateService(r, kind)
        \/ JoinLookups(r)
        \/ TransactWrite(r, NoFault)

----------------------------------------------------------------------------
(* create_appointment.py : concurrent requests for one instant written in   *)
(* several ways, the lookups succeeding and the store available             *)

\* 2025-01-03T00:00:00+01:00 and 2025-01-02T23:00:00: one instant, two days
MidnightPlusOne == DateTimeStr(3, 0, FALSE, 1)
ElevenPmNaive == DateTimeStr(2, 23, TRUE, 0)

PayloadC == Payload("c1", "s1", TenUtc, "L1")
PayloadD == Payload("c1", "s1", MidnightPlusOne, "L1")
PayloadE == Payload("c1", "s1", ElevenPmNaive, "L1")

InstantEvents ==
    {[headers |-> NoHeaders, body |-> JsonBody(p)] :
        p \in {PayloadA, PayloadB, PayloadC, PayloadD, PayloadE}}

InstantNext ==
    \E r \in Requests :
        \/ \E event \in InstantEvents : CreateHandler(r, event)
        \/ ValidateClient(r, "200")
        \/ ValidateService(r, "200")
        \/ JoinLookups(r)
        \/ TransactWrite(r, NoFault)

----------------------------------------------------------------------------
(* create_appointment.py : create requests while the status of stored       *)
(* appointments is changed by the collaborators that own it                 *)

StatusValues == {"scheduled", "in_progress", "completed", "cancelled"}

\* a collaborator gives the appointment appointment_id another status; the
\* item is updated in place, no item is deleted
SetStatus(appointment_id, status) ==
    /\ \E it \in store : /\ it.type = "appointment"
                         /\ it.appointment_id = appointment_id
                         /\ it.status /= status
    /\ store' = {IF it.appointment_id = appointment_id
                 THEN [it EXCEPT !.status = status] ELSE it : it \in store}
    /\ UNCHANGED <<req, dispatchVars, jobVars>>

PayloadL2 == Payload("c1", "s1", TenNaive, "L2")

StatusEvents ==
    {[headers |-> NoHeaders, body |-> JsonBody(p)] :
        p \in {PayloadA, PayloadB, PayloadL2}}

StatusNext ==
    \/ \E r \in Requests :
          \/ \E event \in StatusEvents : CreateHandler(r, event)
          \/ ValidateClient(r, "200")
          \/ ValidateService(r, "200")
          \/ JoinLookups(r)
          \/ \E fault \in {NoFault, "InternalServerError"} : TransactWrite(r, fault)
    \/ \E id \in StoreKeys(store), status \in StatusValues : SetStatus(id, status)

----------------------------------------------------------------------------
(* send_reminder.py : tables, messages and pure helpers *)

\* dict.get(key, default) on a function used as a dict
Get(d, k, default) == IF k \in DOMAIN d THEN d[k] ELSE default
EmptyDict == [k \in {} |-> None]

DefaultType == "appointment.reminder"

\* Queue messages.  json says whether the body parses; the body is a dict
\* holding the keys the sender of the message supplied.
Msg(name, body) == [name |-> name, json |-> TRUE, body |-> body]

MsgA == Msg("A", [notification_id |-> "n1", user_id |-> "u1",
                  email |-> "a@x", phone_e164 |-> "+44"])
MsgB == Msg("B", [user_id |-> "u1", email |-> "b@x"])
MsgBad == [name |-> "Bad", json |-> FALSE, body |-> EmptyDict]
\* a message without user_id, and one whose user_id is empty
MsgNoUser == Msg("NoUser", [notification_id |-> "n2", email |-> "c@x"])
MsgEmptyUser == Msg("EmptyUser", [notification_id |-> "n7", user_id |-> "",
                                  email |-> "c@x"])
\* for a user without preferences
MsgC == Msg("C", [notification_id |-> "n3", user_id |-> "u2",
                  email |-> "c@x", phone_e164 |-> "+44"])
\* of a type for which its user has switched email off
MsgD == Msg("D", [notification_id |-> "n4", user_id |-> "u3", type |-> "promo",
                  email |-> "d@x", phone_e164 |-> "+44"])
\* without contact data
MsgE == Msg("E", [notification_id |-> "n5", user_id |-> "u1"])
\* for a user who allows push only
MsgF == Msg("F", [notification_id |-> "n6", user_id |-> "u4",
                  email |-> "f@x", phone_e164 |-> "+44"])

Messages ==
    {MsgA, MsgB, MsgBad, MsgNoUser, MsgEmptyUser, MsgC, MsgD, MsgE, MsgF}
MsgNames == {m.name : m \in Messages}
Channels == {"email", "sms"}

\* Batches the queue hands to one invocation of handler
Batches == { <<MsgA>>, <<MsgB>>, <<MsgA, MsgB>>, <<MsgB, MsgA>>, <<MsgBad, MsgA>> }

\* Preference items
PrefsAll == [channels |-> [email |-> TRUE, sms |-> TRUE, push |-> TRUE]]
\* email and sms on, email off for notifications of type promo
PrefsPromoOff ==
    [channels |-> [email |-> TRUE, sms |-> TRUE, push |-> FALSE],
     types |-> [t \in {"promo"} |-> [email |-> FALSE]]]
PrefsPushOnly == [channels |-> [email |-> FALSE, push |-> TRUE]]
\* the preferences table: user u1 allows every channel, u2 has no item
PrefsTable ==
    [u \in {"u1", "u3", "u4"} |->
        CASE u = "u1" -> PrefsAll
          [] u = "u3" -> PrefsPromoOff
          [] OTHER -> PrefsPushOnly]

\* get_prefs: resp.get("Item") or {}
get_prefs(tbl, user_id) == Get(tbl, user_id, EmptyDict)

\* the global toggles alone, the overrides of the type ignored
ChannelsGlobal(p, notif_type) ==
    LET ch == Get(p, "channels", EmptyDict)
    IN  {c \in {"email", "sms", "push"} : Get(ch, c, FALSE)}

\* channels_allowed, lines 101-109, as the set of its elements
ChannelsAllowed(p, notif_type) ==
    LET ch == Get(p, "channels", EmptyDict)
        globally == {c \in {"email", "sms", "push"} : Get(ch, c, FALSE)}
        type_over == Get(Get(p, "types", EmptyDict), notif_type, EmptyDict)
    IN  {c \in globally : Get(type_over, c, TRUE)}

\* body.get("notification_id") or f"ntf_{uuid.uuid4().hex}"
NotifId(msg, inv, idx) ==
    LET supplied == Get(msg.body, "notification_id", None)
    IN  IF supplied \notin {None, ""} THEN supplied
        ELSE "ntf_" \o UuidHex(inv, idx)

\* not user_id
NoUserId(msg) == Get(msg.body, "user_id", None) \in {None, ""}

NewEntry(msg) ==
    [user_id |-> msg.body["user_id"],
     type |-> Get(msg.body, "type", DefaultType),
     status |-> "processing",
     attempts |-> 0,
     last_error |-> None,
     provider |-> {}]

\* an unconditional put_item: the entry is written whether or not one exists
PutSendlogAlways(tbl, notification_id, item) ==
    <<TRUE, [n \in DOMAIN tbl \cup {notification_id} |->
                IF n = notification_id THEN item ELSE tbl[n]]>>

\* a put_item that also replaces an entry that has left status processing
PutSendlogUnlessProcessing(tbl, notification_id, item) ==
    IF notification_id \notin DOMAIN tbl
          \/ tbl[notification_id].status /= "processing"
    THEN <<TRUE, [n \in DOMAIN tbl \cup {notification_id} |->
                     IF n = notification_id THEN item ELSE tbl[n]]>>
    ELSE <<FALSE, tbl>>

\* a put_item that replaces an entry in status failed, so that a redelivery
\* after a failure claims the notification again
PutSendlogReplaceFailed(tbl, notification_id, item) ==
    IF notification_id \notin DOMAIN tbl
          \/ tbl[notification_id].status = "failed"
    THEN <<TRUE, [n \in DOMAIN tbl \cup {notification_id} |->
                     IF n = notification_id THEN item ELSE tbl[n]]>>
    ELSE <<FALSE, tbl>>

\* a put_item that lets the delivery that finds an entry in status failed go
\* on as if it had inserted it
PutSendlogRetryFailed(tbl, notification_id, item) ==
    IF notification_id \notin DOMAIN tbl
    THEN <<TRUE, [n \in DOMAIN tbl \cup {notification_id} |->
                     IF n = notification_id THEN item ELSE tbl[n]]>>
    ELSE <<tbl[notification_id].status = "failed", tbl>>

\* sendlogs_tbl.put_item with attribute_not_exists(notification_id), as seen
\* by put_sendlog_once: <<created, table>>
put_sendlog_once(tbl, notification_id, item) ==
    IF notification_id \notin DOMAIN tbl
    THEN <<TRUE, [n \in DOMAIN tbl \cup {notification_id} |->
                     IF n = notification_id THEN item ELSE tbl[n]]>>
    ELSE <<FALSE, tbl>>

\* an update that records sent whether or not anything was sent
UpdateSentAlways(tbl, notification_id, sent_any, provider_ids) ==
    [tbl EXCEPT ![notification_id] =
        [@ EXCEPT !.status = "sent",
                  !.attempts = @ + 1,
                  !.provider = provider_ids]]

\* update_item of lines 133-141
UpdateSent(tbl, notification_id, sent_any, provider_ids) ==
    [tbl EXCEPT ![notification_id] =
        [@ EXCEPT !.status = IF sent_any THEN "sent" ELSE "skipped",
                  !.attempts = @ + 1,
                  !.provider = provider_ids]]

\* a failure update that leaves the attempts count alone
UpdateFailedNoAttempt(tbl, notification_id, e) ==
    [tbl EXCEPT ![notification_id] =
        [@ EXCEPT !.status = "failed", !.last_error = e]]

\* update_item of lines 145-150
UpdateFailed(tbl, notification_id, e) ==
    [tbl EXCEPT ![notification_id] =
        [@ EXCEPT !.status = "failed",
                  !.attempts = @ + 1,
                  !.last_error = e]]

----------------------------------------------------------------------------
(* send_reminder.py : the steps of handler *)

IdleConsumer ==
    [pc |-> "idle", inv |-> 0,
     \* the records the for loop has not finished, the current one first
     todo |-> <<>>,
     notif_id |-> None, channels_allowed |-> {}, sent_any |-> FALSE,
     provider_ids |-> {},
     \* history of the invocation: whether a sender raised, which store call
     \* raised, what became of the record handled last
     sender_raised |-> FALSE, fault |-> None, last |-> None]

InFlight == {"email", "sms", "update", "fail_update"}

NoHist == [claimers |-> {}, senders |-> {}, updaters |-> {}]
HistOf(h, n) == Get(h, n, NoHist)
HistAdd(h, n, field, inv) ==
    [k \in DOMAIN h \cup {n} |->
        IF k = n THEN [HistOf(h, n) EXCEPT ![field] = @ \cup {inv}] ELSE h[k]]

CurMsg(k) == Head(k.todo)

\* end of one iteration of the for loop (continue, or the end of its body):
\* the next record, or return {"status": "ok"} after the last one
NextRecord(k, outcome) ==
    [k EXCEPT !.pc = IF Len(k.todo) = 1 THEN "returned" ELSE "record",
              !.todo = Tail(@),
              !.last = outcome,
              !.notif_id = None, !.channels_allowed = {},
              !.sent_any = FALSE, !.provider_ids = {}]

\* an exception leaves handler
Raise(k, outcome, fault) ==
    [k EXCEPT !.pc = "raised", !.last = outcome, !.fault = fault]

\* the first of the two guarded sends that applies, else the update
SendPc(k, from) ==
    LET body == CurMsg(k).body
        wants_email == "email" \in k.channels_allowed
                          /\ Get(body, "email", None) \notin {None, ""}
        wants_sms == "sms" \in k.channels_allowed
                          /\ Get(body, "phone_e164", None) \notin {None, ""}
    IN  IF from = "try" /\ wants_email THEN "email"
        ELSE IF from \in {"try", "email"} /\ wants_sms THEN "sms"
        ELSE "update"

Free(c) == cons[c].pc \in {"idle", "returned", "raised"}

\* the queue invokes handler with a batch of records, on the first consumer
\* instance that is not running (instances keep nothing between invocations)
Deliver(c, batch) ==
    /\ Free(c)
    /\ \A other \in Consumers : other < c => ~Free(other)
    /\ deliveries < MaxDeliveries
    /\ deliveries' = deliveries + 1
    /\ cons' = [cons EXCEPT ![c] =
                  [IdleConsumer EXCEPT !.pc = "record", !.inv = deliveries + 1,
                                       !.todo = batch]]
    /\ UNCHANGED <<sendlog, prefs, sends, hist, createVars, jobVars>>

\* a record that cannot be handled ends the invocation with an exception
DropAndRaise(c) ==
    /\ cons[c].pc = "record"
    /\ ~CurMsg(cons[c]).json \/ NoUserId(CurMsg(cons[c]))
    /\ cons' = [cons EXCEPT ![c] = Raise(@, "dropped", None)]
    /\ UNCHANGED <<sendlog, prefs, deliveries, sends, hist, createVars, jobVars>>

\* lines 71-84: invalid JSON or missing user_id, the record is skipped
DropRecord(c) ==
    /\ cons[c].pc = "record"
    /\ ~CurMsg(cons[c]).json \/ NoUserId(CurMsg(cons[c]))
    /\ cons' = [cons EXCEPT ![c] = NextRecord(@, "dropped")]
    /\ UNCHANGED <<sendlog, prefs, deliveries, sends, hist, createVars, jobVars>>

\* Store calls of lines 86-112 that can raise
ClaimFaults == {"put", "prefs", "template"}

\* lines 76-121: the conditional insert of the entry; for the invocation that
\* inserted it, the preferences and the template read (two tables nothing in
\* this program writes) and the allowed channels computed, up to the entry
\* into the try block.  fault names the store call that raises, if any.
ClaimRecord(c, fault) ==
    /\ cons[c].pc = "record"
    /\ CurMsg(cons[c]).json /\ ~NoUserId(CurMsg(cons[c]))
    /\ LET k == cons[c]
           msg == CurMsg(k)
           notif_id == NotifId(msg, k.inv, Len(k.todo))
           put == put_sendlog_once(sendlog, notif_id, NewEntry(msg))
           p == get_prefs(prefs, msg.body["user_id"])
           notif_type == Get(msg.body, "type", DefaultType)
           claimed == [k EXCEPT !.notif_id = notif_id,
                                !.channels_allowed = ChannelsAllowed(p, notif_type)]
       IN  IF fault = "put"
           THEN /\ cons' = [cons EXCEPT ![c] = Raise(@, "error", "put")]
                /\ UNCHANGED <<sendlog, hist>>
           ELSE /\ sendlog' = put[2]
                /\ IF ~put[1]
                   THEN /\ cons' = [cons EXCEPT ![c] = NextRecord(@,
                                      "duplicate_of_" \o sendlog[notif_id].status)]
                        /\ UNCHANGED hist
                   ELSE /\ hist' = HistAdd(hist, notif_id, "claimers", k.inv)
                        /\ cons' = [cons EXCEPT ![c] =
                              IF fault \in {"prefs", "template"}
                              THEN Raise([k EXCEPT !.notif_id = notif_id],
                                         "error", fault)
                              ELSE [claimed EXCEPT !.pc = SendPc(claimed, "try")]]
    /\ UNCHANGED <<prefs, deliveries, sends, createVars, jobVars>>

\* lines 124-127: send_email returns a message id or raises
SendEmail(c, ok) ==
    /\ cons[c].pc = "email"
    /\ LET k == cons[c]
       IN  /\ hist' = HistAdd(hist, k.notif_id, "senders", k.inv)
           /\ IF ok
              THEN /\ cons' = [cons EXCEPT ![c] =
                        [@ EXCEPT !.pc = SendPc(k, "email"), !.sent_any = TRUE,
                                  !.provider_ids = @ \cup {"email_msg_id"}]]
                   /\ sends' = [sends EXCEPT ![CurMsg(k).name]["email"] = @ + 1]
              ELSE /\ cons' = [cons EXCEPT ![c] =
                        [@ EXCEPT !.pc = "fail_update", !.sender_raised = TRUE]]
                   /\ UNCHANGED sends
    /\ UNCHANGED <<sendlog, prefs, deliveries, createVars, jobVars>>

\* lines 128-131: send_sms returns a message id or raises
SendSms(c, ok) ==
    /\ cons[c].pc = "sms"
    /\ LET k == cons[c]
       IN  /\ hist' = HistAdd(hist, k.notif_id, "senders", k.inv)
           /\ IF ok
              THEN /\ cons' = [cons EXCEPT ![c] =
                        [@ EXCEPT !.pc = "update", !.sent_any = TRUE,
                                  !.provider_ids = @ \cup {"sms_msg_id"}]]
                   /\ sends' = [sends EXCEPT ![CurMsg(k).name]["sms"] = @ + 1]
              ELSE /\ cons' = [cons EXCEPT ![c] =
                        [@ EXCEPT !.pc = "fail_update", !.sender_raised = TRUE]]
                   /\ UNCHANGED sends
    /\ UNCHANGED <<sendlog, prefs, deliveries, createVars, jobVars>>

\* lines 133-141: the entry updated to sent or skipped; an exception of the
\* update is caught by the except clause like one of a sender
UpdateOutcome(c, fault) ==
    /\ cons[c].pc = "update"
    /\ LET k == cons[c]
       IN  IF fault
           THEN /\ cons' = [cons EXCEPT ![c] = [@ EXCEPT !.pc = "fail_update"]]
                /\ UNCHANGED <<sendlog, hist>>
           ELSE /\ sendlog' = UpdateSent(sendlog, k.notif_id, k.sent_any,
                                         k.provider_ids)
                /\ hist' = HistAdd(hist, k.notif_id, "updaters", k.inv)
                /\ cons' = [cons EXCEPT ![c] =
                      NextRecord(@, IF k.sent_any THEN "sent" ELSE "skipped")]
    /\ UNCHANGED <<prefs, deliveries, sends, createVars, jobVars>>

\* lines 143-151: the entry updated to failed, then raise
FailUpdate(c, fault) ==
    /\ cons[c].pc = "fail_update"
    /\ LET k == cons[c]
       IN  IF fault
           THEN /\ cons' = [cons EXCEPT ![c] = Raise(@, "failed", "fail_update")]
                /\ UNCHANGED <<sendlog, hist>>
           ELSE /\ sendlog' = UpdateFailed(sendlog, k.notif_id, "error")
                /\ hist' = HistAdd(hist, k.notif_id, "updaters", k.inv)
                /\ cons' = [cons EXCEPT ![c] = Raise(@, "failed", None)]
    /\ UNCHANGED <<prefs, deliveries, sends, createVars, jobVars>>

DispatchNext ==
    \E c \in Consumers :
        \/ \E batch \in Batches : Deliver(c, batch)
        \/ DropRecord(c)
        \/ \E fault \in ClaimFaults \cup {NoFault} : ClaimRecord(c, fault)
        \/ \E ok \in BOOLEAN : SendEmail(c, ok)
        \/ \E ok \in BOOLEAN : SendSms(c, ok)
        \/ \E fault \in BOOLEAN : UpdateOutcome(c, fault)
        \/ \E fault \in BOOLEAN : FailUpdate(c, fault)

----------------------------------------------------------------------------
(* send_reminder.py : deliveries one after the other, over every kind of   *)
(* message                                                                 *)

SeqBatches ==
    { <<MsgA>>, <<MsgC>>, <<MsgD>>, <<MsgE>>, <<MsgF>>, <<MsgEmptyUser>>,
      <<MsgNoUser, MsgE>>, <<MsgBad, MsgD>>, <<MsgC, MsgNoUser, MsgBad>> }

\* handler invoked again only after the invocation before it has ended
SeqNext ==
    \/ \E batch \in SeqBatches : Deliver(1, batch)
    \/ DropRecord(1)
    \/ \E fault \in ClaimFaults \cup {NoFault} : ClaimRecord(1, fault)
    \/ \E ok \in BOOLEAN : SendEmail(1, ok)
    \/ \E ok \in BOOLEAN : SendSms(1, ok)
    \/ \E fault \in BOOLEAN : UpdateOutcome(1, fault)
    \/ \E fault \in BOOLEAN : FailUpdate(1, fault)

----------------------------------------------------------------------------
(* services/models.py and backfill_priority.py : the services table, its    *)
(* writers and the backfill command                                         *)

NULL == "NULL"
\* Service.Priority
Priorities == {"LOW", "MEDIUM", "HIGH"}

\* no priority among the keyword arguments of Service.objects.create
NotGiven == "<not given>"

\* the value a new row gets for priority when none is given: the field
\* declares no default and null = True, so the column is NULL
FieldDefault == NULL

NewService(given) ==
    [priority |-> IF given = NotGiven THEN FieldDefault ELSE given,
     given |-> given]

\* Service.objects.create(...): a row under the next primary key
ServiceCreate(given) ==
    /\ Cardinality(DOMAIN services) < MaxServices
    /\ LET pk == Cardinality(DOMAIN services) + 1
       IN  services' = [k \in DOMAIN services \cup {pk} |->
                          IF k = pk THEN NewService(given) ELSE services[k]]
    /\ UNCHANGED <<backfill, createVars, dispatchVars, weatherVars>>

\* another writer saves a priority on an existing row
SetPriority(pk, priority) ==
    /\ pk \in DOMAIN services
    /\ services[pk].priority /= priority
    /\ services' = [services EXCEPT ![pk].priority = priority]
    /\ UNCHANGED <<backfill, createVars, dispatchVars, weatherVars>>

\* Service.objects.filter(priority__isnull=True), evaluated on the table tbl
NullPks(tbl) == {pk \in DOMAIN tbl : tbl[pk].priority = NULL}

\* nulls is history: the number of NULL rows the exists() query that began
\* the current turn of the loop ran on
IdleBackfill == [pc |-> "idle", batch_pks |-> {}, nulls |-> 0]

\* handle, lines 13-16: the command starts; the queryset is lazy
BackfillStart ==
    /\ backfill.pc = "idle"
    /\ backfill' = [backfill EXCEPT !.pc = "exists"]
    /\ UNCHANGED <<services, createVars, dispatchVars, weatherVars>>

\* while queryset.exists(): one query; the loop ends when no row is NULL
BackfillExists ==
    /\ backfill.pc = "exists"
    /\ backfill' = [backfill EXCEPT
                      !.pc = IF NullPks(services) /= {} THEN "read" ELSE "done",
                      !.nulls = Cardinality(NullPks(services))]
    /\ UNCHANGED <<services, createVars, dispatchVars, weatherVars>>

\* the batches queryset.values_list('pk', flat=True)[:BATCH_SIZE] can return:
\* the queryset has no ordering, so any BATCH_SIZE of the NULL rows, or all
\* of them when there are fewer
PkBatches(tbl) ==
    {b \in SUBSET NullPks(tbl) :
        Cardinality(b) = IF Cardinality(NullPks(tbl)) < BatchSize
                         THEN Cardinality(NullPks(tbl)) ELSE BatchSize}

\* batch_pks = list(queryset.values_list('pk', flat=True)[:BATCH_SIZE])
BackfillRead(batch_pks) ==
    /\ backfill.pc = "read"
    /\ batch_pks \in PkBatches(services)
    /\ backfill' = [backfill EXCEPT !.pc = "update", !.batch_pks = batch_pks]
    /\ UNCHANGED <<services, createVars, dispatchVars, weatherVars>>

\* Service.objects.filter(pk__in=batch_pks).update(priority='MEDIUM')
UpdateBatch(tbl, batch_pks) ==
    [pk \in DOMAIN tbl |->
        IF pk \in batch_pks THEN [tbl[pk] EXCEPT !.priority = "MEDIUM"]
        ELSE tbl[pk]]

\* the update of the batch, then the sleep and the next turn of the loop
BackfillUpdate ==
    /\ backfill.pc = "update"
    /\ services' = UpdateBatch(services, backfill.batch_pks)
    /\ backfill' = [backfill EXCEPT !.pc = "exists"]
    /\ UNCHANGED <<createVars, dispatchVars, weatherVars>>

ServicesNext ==
    \/ \E given \in {NotGiven, "HIGH"} : ServiceCreate(given)
    \/ \E pk \in 1 .. MaxServices, priority \in Priorities : SetPriority(pk, priority)
    \/ BackfillStart
    \/ BackfillExists
    \/ \E batch_pks \in SUBSET (1 .. MaxServices) : BackfillRead(batch_pks)
    \/ BackfillUpdate

----------------------------------------------------------------------------
(* check_weather.py : the tracking table, the cache and the steps of handler *)

LOOKAHEAD_DAYS == 7
MAX_LOCATIONS_PER_CYCLE == 200

\* scheduled_at of a tracking row: absent, not ISO-8601, or a day (counted
\* from the day of the first run)
OnDay(day) == [present |-> TRUE, parses |-> TRUE, day |-> day]
NoSchedule == [present |-> FALSE, parses |-> FALSE, day |-> 0]
BadSchedule == [present |-> TRUE, parses |-> FALSE, day |-> 0]

Row(location, scheduled_at, status, next_check_at) ==
    [location |-> location, scheduled_at |-> scheduled_at, status |-> status,
     next_check_at |-> next_check_at, updated_at |-> 0]

\* the rows of the tracking table; times are hours from the first run
TrackingRows ==
    [tid \in {"t1", "t2", "t3", "t4", "t5", "t6", "t7", "t8"} |->
        CASE tid = "t1" -> Row("P1", OnDay(6), "active", 0)
          [] tid = "t2" -> Row("P1", OnDay(2), "active", 0)
          [] tid = "t3" -> Row("P2", OnDay(0), "active", 0)
          [] tid = "t4" -> Row("P2", NoSchedule, "active", 0)
          [] tid = "t5" -> Row("", OnDay(1), "active", 0)
          [] tid = "t6" -> Row("P3", BadSchedule, "active", 0)
          [] tid = "t7" -> Row("P4", OnDay(30), "active", 500)
          [] OTHER -> Row("P1", OnDay(1), "done", 0)]

Max2(a, b) == IF a > b THEN a ELSE b
Min2(a, b) == IF a < b THEN a ELSE b

\* days_between(start_of_day_utc(now), start_of_day_utc(sched_dt))
DaysLeft(now, scheduled_at) == Max2(0, scheduled_at.day - (now \div 24))

\* select_due_tracking: the results the query can give, rows of status
\* active with next_check_at <= now + LOOKAHEAD_DAYS, at most
\* MAX_LOCATIONS_PER_CYCLE of them
select_due_tracking(tbl, now_utc) ==
    LET due == {tid \in DOMAIN tbl :
                   /\ tbl[tid].status = "active"
                   /\ tbl[tid].next_check_at <= now_utc + LOOKAHEAD_DAYS * 24}
    IN  {items \in SUBSET due :
            Cardinality(items) = Min2(Cardinality(due), MAX_LOCATIONS_PER_CYCLE)}

\* the rows group_by_location_with_horizon does not skip
Located(tbl, rows) ==
    {tid \in rows : /\ tbl[tid].location /= ""
                    /\ tbl[tid].scheduled_at.present
                    /\ tbl[tid].scheduled_at.parses}

RECURSIVE MaxNeed(_, _, _)
MaxNeed(tbl, now_utc, rows) ==
    IF rows = {} THEN 1
    ELSE LET tid == CHOOSE t \in rows : TRUE
             need == Max2(1, Min2(LOOKAHEAD_DAYS,
                                  DaysLeft(now_utc, tbl[tid].scheduled_at)))
         IN  Max2(need, MaxNeed(tbl, now_utc, rows \ {tid}))

\* group_by_location_with_horizon: postcode -> days to fetch
group_by_location_with_horizon(tbl, now_utc, rows) ==
    [loc \in {tbl[tid].location : tid \in Located(tbl, rows)} |->
        MaxNeed(tbl, now_utc,
                {tid \in Located(tbl, rows) : tbl[tid].location = loc})]

\* rows_by_loc of handler, lines 192-197
RowsByLoc(tbl, rows, postcode) ==
    {tid \in rows : tbl[tid].location /= "" /\ tbl[tid].location = postcode}

\* the cadence of bump_next_check_for_rows, in hours
Delta(days_left) ==
    IF days_left > 3 THEN 24 ELSE IF days_left > 1 THEN 6 ELSE 3

IdleRefresh ==
    [pc |-> "idle", run |-> 0, now |-> 0, due_rows |-> {},
     todo |-> {}, postcode |-> None, rows |-> {}, refreshed |-> 0,
     returned |-> 0 - 1,
     \* history: <<run, postcode>> of the cache writes that succeeded, of
     \* the locations whose fetch or cache write raised
     cached |-> {}, failed |-> {}]

\* return {"status": "ok", "refreshed_locations": refreshed, ...}
Return(w) == [w EXCEPT !.pc = "returned", !.returned = w.refreshed]

\* the next location of the for loop, or the return after the last one
NextLocation(w) ==
    IF w.todo = {} THEN Return(w)
    ELSE [w EXCEPT !.pc = "loop", !.postcode = None, !.rows = {}]

\* handler, lines 175-197: a run starts 12 hours after the one before it;
\* the due rows are read and grouped
RefreshStart(due_rows) ==
    /\ wx.pc \in {"idle", "returned"}
    /\ wx.run < MaxRuns
    /\ LET now == 12 * wx.run
           per_loc_days == group_by_location_with_horizon(tracking, now, due_rows)
           w == [wx EXCEPT !.run = @ + 1, !.now = now, !.due_rows = due_rows,
                           !.refreshed = 0, !.returned = 0 - 1,
                           !.todo = DOMAIN per_loc_days]
       IN  /\ due_rows \in select_due_tracking(tracking, now)
           /\ wx' = IF due_rows = {} \/ DOMAIN per_loc_days = {}
                    THEN Return(w) ELSE NextLocation(w)
    /\ UNCHANGED <<tracking, wcache, serviceVars, createVars, dispatchVars>>

\* fetch_forecast_days and write_daily_cache of one location: both return,
\* or the fetch raises, or the cache write raises with nothing or with some
\* of the days written
RefreshOutcomes == {"ok", "fetch_raises", "cache_raises", "cache_raises_midway"}

\* write_daily_cache: the items of the days written; when the write
\* raises midway the last day is missing
WriteCache(tbl, postcode, days, now_utc, outcome) ==
    LET written == IF outcome = "ok" THEN days
                   ELSE IF outcome = "cache_raises_midway" THEN days - 1 ELSE 0
    IN  IF written = 0 THEN tbl
        ELSE [p \in DOMAIN tbl \cup {postcode} |->
                IF p = postcode THEN [days |-> written, updated_at |-> now_utc]
                ELSE tbl[p]]

\* a location processed like one whose cache write succeeded, whatever the
\* outcome of the fetch and of the cache write
RefreshLocationUnguarded(postcode, outcome) ==
    /\ wx.pc = "loop"
    /\ postcode \in wx.todo
    /\ LET days == group_by_location_with_horizon(tracking, wx.now,
                                                  wx.due_rows)[postcode]
           w == [wx EXCEPT !.todo = @ \ {postcode}]
       IN  /\ wcache' = WriteCache(wcache, postcode, days, wx.now, outcome)
           /\ wx' = [w EXCEPT !.pc = "bump", !.postcode = postcode,
                              !.refreshed = @ + 1,
                              !.rows = RowsByLoc(tracking, wx.due_rows, postcode),
                              !.cached = IF outcome = "ok"
                                         THEN @ \cup {<<wx.run, postcode>>} ELSE @,
                              !.failed = IF outcome /= "ok"
                                         THEN @ \cup {<<wx.run, postcode>>} ELSE @]
    /\ UNCHANGED <<tracking, serviceVars, createVars, dispatchVars>>

\* handler, lines 199-205: one turn of the for loop up to the call of
\* bump_next_check_for_rows, or to the except clause
RefreshLocation(postcode, outcome) ==
    /\ wx.pc = "loop"
    /\ postcode \in wx.todo
    /\ LET days == group_by_location_with_horizon(tracking, wx.now,
                                                  wx.due_rows)[postcode]
           w == [wx EXCEPT !.todo = @ \ {postcode}]
       IN  /\ wcache' = WriteCache(wcache, postcode, days, wx.now, outcome)
           /\ wx' = IF outcome = "ok"
                    THEN [w EXCEPT !.pc = "bump", !.postcode = postcode,
                                   !.refreshed = @ + 1,
                                   !.rows = RowsByLoc(tracking, wx.due_rows,
                                                      postcode),
                                   !.cached = @ \cup {<<wx.run, postcode>>}]
                    ELSE NextLocation([w EXCEPT
                                         !.failed = @ \cup {<<wx.run, postcode>>}])
    /\ UNCHANGED <<tracking, serviceVars, createVars, dispatchVars>>

\* what tracking_tbl.update_item does in bump_next_check_for_rows: it
\* returns, raises ClientError (caught, the next row follows) or raises
\* another exception (which leaves bump_next_check_for_rows)
BumpOutcomes == {"ok", "ClientError", "other"}

\* bump_next_check_for_rows: one turn of its for loop
BumpRow(tid, outcome) ==
    /\ wx.pc = "bump"
    /\ tid \in wx.rows
    /\ LET row == tracking[tid]
           skipped == ~row.scheduled_at.present \/ ~row.scheduled_at.parses
           new_next == wx.now + Delta(DaysLeft(wx.now, row.scheduled_at))
           w == [wx EXCEPT !.rows = @ \ {tid}]
       IN  /\ skipped => outcome = "ok"
           /\ tracking' = IF ~skipped /\ outcome = "ok"
                          THEN [tracking EXCEPT ![tid].next_check_at = new_next,
                                                ![tid].updated_at = wx.now]
                          ELSE tracking
           /\ wx' = IF (~skipped /\ outcome = "other") \/ w.rows = {}
                    THEN NextLocation(w) ELSE w
    /\ UNCHANGED <<wcache, serviceVars, createVars, dispatchVars>>

WeatherNext ==
    \/ \E due_rows \in SUBSET DOMAIN TrackingRows : RefreshStart(due_rows)
    \/ \E postcode \in {"P1", "P2", "P3", "P4"}, outcome \in RefreshOutcomes :
          RefreshLocation(postcode, outcome)
    \/ \E tid \in DOMAIN TrackingRows, outcome \in BumpOutcomes : BumpRow(tid, outcome)

----------------------------------------------------------------------------
(* Specifications *)

\* the tables are empty, no request and no delivery has arrived
Init ==
    /\ store = {}
    /\ req = [r \in Requests |-> IdleRequest]
    /\ sendlog = EmptyDict
    /\ cons = [c \in Consumers |-> IdleConsumer]
    /\ prefs = PrefsTable
    /\ deliveries = 0
    /\ sends = [m \in MsgNames |-> [ch \in Channels |-> 0]]
    /\ hist = EmptyDict
    /\ services = EmptyDict
    /\ backfill = IdleBackfill
    /\ tracking = TrackingRows
    /\ wcache = EmptyDict
    /\ wx = IdleRefresh

Next == CreateNext \/ DispatchNext \/ ServicesNext \/ WeatherNext

Spec == Init /\ [][Next]_vars

\* the creation path alone
SpecCreate == Init /\ [][CreateNext]_vars

\* the dispatcher alone
SpecDispatch == Init /\ [][DispatchNext]_vars

\* the dispatcher, one invocation at a time
SpecSeq == Init /\ [][SeqNext]_vars

\* one create request on its own
SpecSingle == Init /\ [][SingleNext]_vars

\* concurrent valid create requests under every upstream answer
SpecLookup == Init /\ [][LookupNext]_vars

\* concurrent create requests for one instant
SpecInstant == Init /\ [][InstantNext]_vars

\* create requests and changes of status of the stored appointments
SpecStatus == Init /\ [][StatusNext]_vars

\* the services table: creations, other writers and one run of the backfill
SpecServices == Init /\ [][ServicesNext]_vars

\* the same, the command being a process that keeps running: each step of
\* handle is taken once it can be
BackfillStep ==
    \/ BackfillStart
    \/ BackfillExists
    \/ \E batch_pks \in SUBSET (1 .. MaxServices) : BackfillRead(batch_pks)
    \/ BackfillUpdate
SpecBackfill == Init /\ [][ServicesNext]_vars /\ WF_vars(BackfillStep)

\* the weather refresh, run after run
SpecWeather == Init /\ [][WeatherNext]_vars

----------------------------------------------------------------------------
(* Properties of the creation path *)

Records == {it \in store : it.type = "appointment"}
Markers == {it \in store : it.type = "uniqueness_marker"}
KeyOf(rec) == UniqKey(rec.client_id, rec.service_id, rec.scheduled_at, rec.location)
Status(r) == req[r].resp.statusCode

\* the requests that have arrived
Arrived == {r \in Requests : req[r].pc /= "idle"}

\* the requests that have arrived all carry a valid payload with the same
\* client_id, service_id, scheduled_at and location
SameValidPayload ==
    /\ Arrived /= {}
    /\ \A r, other \in Arrived :
          /\ req[r].event.body.json
          /\ validate_payload(req[r].event.body.payload, None)[1]
          /\ \A f \in {"client_id", "service_id", "scheduled_at", "location"} :
                req[r].event.body.payload[f] = req[other].event.body.payload[f]

\* every request that has arrived has ended, both lookups having succeeded
\* and the store having been available to it
RaceDone ==
    \A r \in Arrived :
        /\ req[r].pc = "done"
        /\ req[r].client.exists /\ req[r].service.exists
        /\ req[r].txn.fault = NoFault

\* C1: N >= 1 concurrent create requests with the same valid payload, both
\* lookups succeeding and the store available: exactly one of them is
\* answered 201 and all the others 409, whatever the interleaving.
ThmC1 ==
    (SameValidPayload /\ RaceDone) =>
        /\ Cardinality({r \in Arrived : Status(r) = 201}) = 1
        /\ \A r \in Arrived : Status(r) \in {201, 409}

\* the race has been run by all the requests, and one of them lost it
WitC1 ==
    /\ Arrived = Requests
    /\ SameValidPayload /\ RaceDone
    /\ \E r \in Requests : Status(r) = 409

\* C8: in every state each uniqueness marker refers to an appointment record
\* whose four values make up the marker's key, no other record has that key,
\* each record has its marker, and a request answered 201 has both in the
\* store.
ThmC8 ==
    /\ \A m \in Markers :
          \E rec \in Records :
              /\ rec.appointment_id = m.ref_appointment_id
              /\ KeyOf(rec) = m.appointment_id
              /\ \A other \in Records : KeyOf(other) = m.appointment_id => other = rec
    /\ \A rec \in Records :
          \E m \in Markers :
              /\ m.appointment_id = KeyOf(rec)
              /\ m.ref_appointment_id = rec.appointment_id
    /\ \A r \in Requests :
          Status(r) = 201 =>
              /\ \E rec \in Records :
                    rec.appointment_id = req[r].resp.body.data.appointment_id
              /\ \E m \in Markers :
                    /\ m.appointment_id = req[r].uniq_key
                    /\ m.ref_appointment_id = req[r].resp.body.data.appointment_id

WitC8 ==
    /\ \E r \in Requests : Status(r) = 201
    /\ \E r \in Requests : Status(r) = 409 /\ req[r].txn.reason = "ConditionalCheckFailed"
    /\ Cardinality(Records) = 1 /\ Cardinality(Markers) = 1

\* C9: a request is answered 409 only when the store rejected the write
\* because a marker for the request's key already existed.
CexC9 ==
    \A r \in Requests :
        Status(r) = 409 =>
            /\ req[r].txn.reason = "ConditionalCheckFailed"
            /\ req[r].txn.marker_existed

\* C10: every failure of the atomic write other than a failed precondition
\* is answered 500 with the generic message and the correlation id, with
\* nothing written; the handler always ends with a response.
CexC10 ==
    \A r \in Requests :
        (req[r].txn.fault \in StoreFaults) =>
            /\ req[r].pc = "done"
            /\ Status(r) = 500
            /\ req[r].resp.body.data.error = "Failed to create appointment"
            /\ req[r].resp.body.correlation_id = req[r].correlation_id
            /\ req[r].appointment_id \notin StoreKeys(store)

----------------------------------------------------------------------------
(* Properties of the dispatcher *)

WellFormed(msg) == msg.json /\ ~NoUserId(msg)

\* consumer c is about to run the conditional insert for notification id n
AtPut(c, n) ==
    /\ cons[c].pc = "record"
    /\ WellFormed(CurMsg(cons[c]))
    /\ NotifId(CurMsg(cons[c]), cons[c].inv, Len(cons[c].todo)) = n

\* C2: of the invocations that handle one notification_id, at most one passes
\* the conditional insert, and only that one calls a sender or updates the
\* entry.
ThmC2 ==
    /\ \A n \in DOMAIN hist :
          /\ Cardinality(hist[n].claimers) <= 1
          /\ hist[n].senders \subseteq hist[n].claimers
          /\ hist[n].updaters \subseteq hist[n].claimers
    /\ \A c \in Consumers :
          cons[c].pc \in InFlight =>
              HistOf(hist, cons[c].notif_id).claimers = {cons[c].inv}

\* two invocations overlap on n1: one has inserted the entry and sent, the
\* other was turned away while the first is still running
WitC2 ==
    \E c1, c2 \in Consumers :
        /\ c1 /= c2
        /\ cons[c1].pc \in InFlight /\ cons[c1].notif_id = "n1"
        /\ HistOf(hist, "n1").senders = {cons[c1].inv}
        /\ cons[c2].last = "duplicate_of_processing"

\* C3: over any number of deliveries of a message, no sender succeeds more
\* than once for it.
CexC3 == \A m \in MsgNames : \A ch \in Channels : sends[m][ch] <= 1

\* C4: once the entry of a notification_id is in status sent, no step changes
\* the entry or sends for that id, and a delivery of that id is skipped with
\* handler going on to the next record or returning (the conditional insert
\* being answered by the store).
ThmC4 ==
    [][ \A n \in DOMAIN sendlog :
          sendlog[n].status = "sent" =>
             /\ sendlog'[n] = sendlog[n]
             /\ HistOf(hist', n).senders = HistOf(hist, n).senders
             /\ \A m \in Messages :
                   Get(m.body, "notification_id", None) = n =>
                       sends'[m.name] = sends[m.name]
             /\ \A c \in Consumers :
                   (AtPut(c, n) /\ cons'[c] /= cons[c] /\ cons'[c].fault = None) =>
                       /\ cons'[c].last = "duplicate_of_sent"
                       /\ cons'[c].pc = IF Len(cons[c].todo) = 1 THEN "returned"
                                        ELSE "record" ]_vars

WitC4 ==
    \E c \in Consumers :
        /\ cons[c].pc = "returned"
        /\ cons[c].last = "duplicate_of_sent"
        /\ sendlog["n1"].status = "sent" /\ sendlog["n1"].attempts = 1
        /\ sends["A"]["email"] = 1

\* C5: a delivery that finds the entry of its notification_id in status
\* failed is not turned away as a duplicate.
CexC5 == \A c \in Consumers : cons[c].last /= "duplicate_of_failed"

\* C6: when a sender raises, handler does not return normally; it updates
\* the entry to failed with attempts incremented by one and last_error set
\* (the update being accepted by the store), and has raised only after that.
ThmC6 ==
    /\ [](\A c \in Consumers :
            cons[c].sender_raised =>
               /\ cons[c].pc \in {"fail_update", "raised"}
               /\ (cons[c].pc = "raised" /\ cons[c].fault = None) =>
                     /\ sendlog[cons[c].notif_id].status = "failed"
                     /\ sendlog[cons[c].notif_id].last_error /= None)
    /\ [][ \A c \in Consumers :
             (cons[c].sender_raised /\ cons[c].pc = "fail_update"
                 /\ cons'[c].pc = "raised" /\ cons'[c].fault = None) =>
                /\ sendlog'[cons[c].notif_id].status = "failed"
                /\ sendlog'[cons[c].notif_id].attempts
                      = sendlog[cons[c].notif_id].attempts + 1
                /\ sendlog'[cons[c].notif_id].last_error /= None ]_vars

WitC6 ==
    \E c \in Consumers :
        /\ cons[c].sender_raised /\ cons[c].pc = "raised" /\ cons[c].fault = None
        /\ sendlog[cons[c].notif_id].status = "failed"
        /\ sendlog[cons[c].notif_id].attempts = 1

\* C7: when the send of one record of a batch fails, every other well-formed
\* record of the batch is still handled in the same invocation.
CexC7 ==
    \A c \in Consumers :
        (cons[c].pc = "raised" /\ cons[c].sender_raised) =>
            \A i \in 2 .. Len(cons[c].todo) : ~WellFormed(cons[c].todo[i])

----------------------------------------------------------------------------
(* Properties of the lookups *)

\* the class the upstream answer of a failed lookup belongs to
AnswerClass(answer) == IF answer = "404" THEN 404 ELSE 503

\* the answers of the lookups of request r that were not 200
FailedAnswers(r) ==
    {a \in {req[r].client.answer, req[r].service.answer} : a \notin {None, "200"}}

\* C11: a validated request one of whose lookups did not answer 200 is
\* answered 404 when that lookup answered 404 and 503 when it answered another
\* status, timed out or failed in transport (with two failed lookups, the
\* class of one of them); transact_write_items is never called for it, and
\* the step that answers it leaves the store as it was.
ThmC11 ==
    /\ [](\A r \in Requests :
            /\ (req[r].pc \in {"write", "crashed"} \/ req[r].txn /= NoTxn)
                  => FailedAnswers(r) = {}
            /\ (req[r].pc = "done" /\ FailedAnswers(r) /= {}) =>
                  /\ Status(r) \in {AnswerClass(a) : a \in FailedAnswers(r)}
                  /\ req[r].txn = NoTxn
                  /\ req[r].appointment_id = None
                  /\ \A it \in store :
                        it.correlation_id /= req[r].correlation_id)
    /\ [][ \A r \in Requests :
             (FailedAnswers(r) /= {} /\ req'[r] /= req[r]) => store' = store ]_vars

\* next to an appointment another request stored, a request whose service
\* lookup failed in transport has been answered 503
WitC11 ==
    /\ store /= {}
    /\ \E r \in Requests :
          /\ req[r].pc = "done"
          /\ req[r].client.answer = "200" /\ req[r].service.answer = "error"
          /\ Status(r) = 503

----------------------------------------------------------------------------
(* Properties of one request *)

ClaimFields == {"client_id", "service_id", "scheduled_at", "location"}

\* the required fields absent from the payload of an event
MissingOf(event) == ClaimFields \ DOMAIN event.body.payload

\* the body is not JSON, or the payload lacks a required field, or (all
\* being there) scheduled_at does not parse or notes exceed 1024 characters
BadRequest(event) ==
    \/ ~event.body.json
    \/ MissingOf(event) /= {}
    \/ ~event.body.payload["scheduled_at"].parses
    \/ /\ "notes" \in DOMAIN event.body.payload
       /\ event.body.payload["notes"] > 1024

\* C12: a request whose body is not JSON or whose payload fails validation
\* is answered 400, and at no point of its handling has a lookup been
\* called, transact_write_items been called or the store been changed.
ThmC12 ==
    /\ [](\A r \in Requests :
            (req[r].pc /= "idle" /\ BadRequest(req[r].event)) =>
               /\ req[r].pc = "done"
               /\ Status(r) = 400
               /\ req[r].client = NoLookup /\ req[r].service = NoLookup
               /\ req[r].txn = NoTxn)
    /\ [][ \A r \in Requests :
             (req'[r] /= req[r] /\ BadRequest(req'[r].event)) => store' = store ]_vars

\* "not-a-date" with every field there has been answered 400
WitC12 ==
    \E r \in Requests :
        /\ req[r].pc = "done" /\ Status(r) = 400
        /\ req[r].event.body.json /\ MissingOf(req[r].event) = {}
        /\ req[r].event.body.payload["scheduled_at"] = NotADate
        /\ "notes" \notin DOMAIN req[r].event.body.payload
        /\ req[r].resp.body.data.error = "scheduled_at must be valid ISO-8601 datetime"

\* C13: every invocation of handler ends with a response whose
\* X-Correlation-Id header and correlation_id body field are the same id: the
\* value of the request's header when it has one (a header with an empty
\* value counted as none), else a generated cor-<random>.
CexC13 ==
    \A r \in Requests :
        (req[r].pc \notin {"idle", "lookup", "write"}) =>
            LET hs == req[r].event.headers
                given == {hs[k] : k \in {k \in DOMAIN hs :
                                          Lower(k) = "x-correlation-id"}} \ {""}
            IN  /\ req[r].pc = "done"
                /\ req[r].resp.headers.XCorrelationId
                      = req[r].resp.body.correlation_id
                /\ IF given /= {}
                   THEN req[r].resp.body.correlation_id \in given
                   ELSE req[r].resp.body.correlation_id = "cor-" \o UuidHex(r, 0)

\* C14: for a payload from which the non-empty set M of required fields is
\* absent, the response is 400 and its fields list holds exactly the names
\* of M, each once.
ThmC14 ==
    \A r \in Requests :
        (req[r].pc /= "idle" /\ req[r].event.body.json
            /\ MissingOf(req[r].event) /= {}) =>
           LET fields == req[r].resp.body.data.fields
           IN  /\ req[r].pc = "done"
               /\ Status(r) = 400
               /\ {fields[i] : i \in 1 .. Len(fields)} = MissingOf(req[r].event)
               /\ Len(fields) = Cardinality(MissingOf(req[r].event))

\* client_id and location are absent from a payload whose scheduled_at does
\* not parse and whose notes are too long, and both are listed
WitC14 ==
    \E r \in Requests :
        /\ req[r].pc = "done"
        /\ MissingOf(req[r].event) = {"client_id", "location"}
        /\ req[r].event.body.payload["scheduled_at"] = NotADate
        /\ "notes" \in DOMAIN req[r].event.body.payload
        /\ req[r].event.body.payload["notes"] = 1025
        /\ req[r].resp.body.data.fields = <<"client_id", "location">>

----------------------------------------------------------------------------
(* Properties of the order of validation *)

\* the checks of validate_payload a payload fails, read off the payload
FailsMissing(event) == MissingOf(event) /= {}
FailsDate(event) ==
    /\ "scheduled_at" \in DOMAIN event.body.payload
    /\ ~event.body.payload["scheduled_at"].parses
FailsNotes(event) ==
    /\ "notes" \in DOMAIN event.body.payload
    /\ event.body.payload["notes"] > 1024

\* the reason of the earliest check the payload fails
EarliestReason(event) ==
    IF FailsMissing(event) THEN "Missing required fields"
    ELSE IF FailsDate(event) THEN "scheduled_at must be valid ISO-8601 datetime"
    ELSE "notes must not exceed 1024 characters"

\* C23: the checks are applied in the order missing fields, scheduled_at
\* parse, notes length, and the first failing one is terminal: a payload
\* that fails one or several checks is answered 400 with the reason of the
\* earliest check it fails, and with that reason only.
ThmC23 ==
    \A r \in Requests :
        (/\ req[r].pc /= "idle" /\ req[r].event.body.json
         /\ (FailsMissing(req[r].event) \/ FailsDate(req[r].event)
                \/ FailsNotes(req[r].event))) =>
            /\ req[r].pc = "done"
            /\ Status(r) = 400
            /\ req[r].resp.body.data.error = EarliestReason(req[r].event)
            /\ (~FailsMissing(req[r].event)) => req[r].resp.body.data.fields = <<>>

\* a payload without location, with notes of 2000 characters and a
\* scheduled_at that does not parse, has been told of the missing field
WitC23 ==
    \E r \in Requests :
        /\ req[r].pc = "done" /\ Status(r) = 400
        /\ MissingOf(req[r].event) = {"location"}
        /\ FailsDate(req[r].event)
        /\ FailsNotes(req[r].event) /\ req[r].event.body.payload["notes"] = 2000
        /\ req[r].resp.body.data.error = "Missing required fields"
        /\ req[r].resp.body.data.fields = <<"location">>

----------------------------------------------------------------------------
(* Properties of the normalisation of scheduled_at *)

PayloadOf(r) == req[r].event.body.payload

\* the instant a datetime string denotes, none given meaning UTC: the hour
\* of the month on the UTC clock
Denotes(str) == 24 * str.day + str.hour - str.off

\* two arrived requests name the same client, service and location and
\* their scheduled_at strings denote the same instant
SameSlot(r1, r2) ==
    /\ req[r1].pc /= "idle" /\ req[r2].pc /= "idle"
    /\ \A f \in {"client_id", "service_id", "location"} :
          PayloadOf(r1)[f] = PayloadOf(r2)[f]
    /\ Denotes(PayloadOf(r1)["scheduled_at"]) = Denotes(PayloadOf(r2)["scheduled_at"])

\* C19: requests for one client, service and location whose scheduled_at
\* strings denote one instant get the same UTC string and the same
\* fingerprint; the one that writes first is answered 201, and each of the
\* others 409 while the store holds the first one's record under that UTC
\* string.
ThmC19 ==
    \A r1, r2 \in Requests :
        (r1 /= r2 /\ SameSlot(r1, r2)) =>
            /\ req[r1].scheduled_iso = req[r2].scheduled_iso
            /\ (req[r1].uniq_key /= None /\ req[r2].uniq_key /= None)
                  => req[r1].uniq_key = req[r2].uniq_key
            /\ (req[r1].pc = "done" /\ req[r2].pc = "done") =>
                  /\ {Status(r1), Status(r2)} \subseteq {201, 409}
                  /\ ~(Status(r1) = 201 /\ Status(r2) = 201)
            /\ (req[r1].pc = "done" /\ Status(r1) = 409) =>
                  \E rec \in Records :
                      /\ rec.scheduled_at = req[r1].scheduled_iso
                      /\ rec.appointment_id /= req[r1].appointment_id
                      /\ \E r \in Requests :
                            /\ Status(r) = 201 /\ SameSlot(r, r1)
                            /\ req[r].resp.body.data.appointment_id
                                  = rec.appointment_id
                            /\ req[r].resp.body.data.scheduled_at
                                  = rec.scheduled_at

\* 10:00+00:00 was stored, then 11:00+01:00 of the same day turned away
WitC19 ==
    \E r1, r2 \in Requests :
        /\ PayloadOf(r1) = PayloadC /\ Status(r1) = 201
        /\ PayloadOf(r2) = PayloadB /\ Status(r2) = 409
        /\ \E rec \in Records : rec.scheduled_at = "2025-01-02T10:00:00+00:00"

----------------------------------------------------------------------------
(* Properties of the two lookup tasks *)

\* the payload of request r has passed validate_payload
Validated(r) ==
    /\ req[r].pc \notin {"idle", "crashed"}
    /\ ~BadRequest(req[r].event)

BothReturned(r) == req[r].client.done /\ req[r].service.done

\* C22: for a payload that passed validation the two lookups are tasks that
\* run concurrently and both have returned before the outcome is decided:
\* a request that is answered, or at the store write, has both lookups
\* returned; the step that decides and every step that changes the store
\* is taken with both returned; and while one lookup has failed the other
\* can still be made, with every upstream answer.
ThmC22 ==
    /\ [](\A r \in Requests :
            /\ ((req[r].pc = "done" /\ Validated(r)) \/ req[r].pc = "write"
                    \/ req[r].txn /= NoTxn) => BothReturned(r)
            /\ (req[r].pc = "lookup" /\ req[r].client.done
                    /\ ~req[r].client.exists /\ ~req[r].service.done) =>
                  \A kind \in UpstreamKinds : ENABLED ValidateService(r, kind)
            /\ (req[r].pc = "lookup" /\ req[r].service.done
                    /\ ~req[r].service.exists /\ ~req[r].client.done) =>
                  \A kind \in UpstreamKinds : ENABLED ValidateClient(r, kind))
    /\ [][ \A r \in Requests :
             /\ (req[r].pc = "lookup" /\ req'[r].pc /= "lookup") => BothReturned(r)
             /\ (req'[r] /= req[r] /\ store' /= store) => BothReturned(r) ]_vars

\* one request has been answered 404 for its client after its service lookup
\* had timed out, while the service lookup of another has failed and its
\* client lookup has not returned yet
WitC22 ==
    \E r, q \in Requests :
        /\ req[r].pc = "done" /\ Status(r) = 404
        /\ req[r].client.answer = "404" /\ req[r].service.answer = "timeout"
        /\ req[q].pc = "lookup"
        /\ req[q].service.done /\ ~req[q].service.exists /\ ~req[q].client.done

\* C24: when both lookups of a request have failed, the status and the
\* error payload of the response are those of the client lookup whatever the
\* service lookup returned: 404 with the client's payload when the client
\* lookup answered 404, 503 with the client's payload otherwise.
ThmC24 ==
    \A r \in Requests :
        (/\ req[r].pc = "done" /\ BothReturned(r)
         /\ ~req[r].client.exists /\ ~req[r].service.exists) =>
            /\ Status(r) = AnswerClass(req[r].client.answer)
            /\ req[r].resp.body.data = req[r].client.error
            /\ req[r].resp.body.data /= req[r].service.error
            /\ req[r].client.answer = "404" =>
                  /\ req[r].resp.body.data.error = "Client not found"
                  /\ req[r].resp.body.data.client_id = PayloadOf(r)["client_id"]
            /\ req[r].client.answer = "timeout" =>
                  /\ req[r].resp.body.data.error = "Service timeout"
                  /\ req[r].resp.body.data.details
                        = "User service did not respond in time"

\* the client lookup timed out and the service lookup answered 404: 503
\* with the payload of the client lookup
WitC24 ==
    \E r \in Requests :
        /\ req[r].pc = "done"
        /\ req[r].client.answer = "timeout" /\ req[r].service.answer = "404"
        /\ Status(r) = 503
        /\ req[r].resp.body.data.details = "User service did not respond in time"

----------------------------------------------------------------------------
(* Properties of the fingerprint *)

\* the appointment-defining tuple of request r, and of a stored record
TupleOf(r) ==
    <<PayloadOf(r)["client_id"], PayloadOf(r)["service_id"],
      req[r].scheduled_iso, PayloadOf(r)["location"]>>
TupleOfRecord(rec) ==
    <<rec.client_id, rec.service_id, rec.scheduled_at, rec.location>>

\* C25: the fingerprint is injective on the tuple (client_id, service_id,
\* UTC instant, location): two validated requests with different tuples
\* never get the same uniqueness-marker key, and a request whose write
\* failed on the marker's condition, the store being available, finds an
\* appointment stored for its own tuple; also when a value contains '#'.
CexC25 ==
    /\ \A r, q \in Requests :
          (req[r].uniq_key /= None /\ req[r].uniq_key = req[q].uniq_key)
              => TupleOf(r) = TupleOf(q)
    /\ \A r \in Requests :
          (/\ req[r].pc = "done" /\ Status(r) = 409
           /\ req[r].txn.fault = NoFault) =>
              \E rec \in Records : TupleOfRecord(rec) = TupleOf(r)

\* C28: once a creation has been answered 201 for a fingerprint, every later
\* create request with that fingerprint that passes validation and reaches
\* an available store is answered 409, whatever status the first appointment
\* has been given since; no step deletes or changes a uniqueness marker.
ThmC28 ==
    /\ [][ \A r, q \in Requests :
             (/\ req[r].pc = "done" /\ Status(r) = 201
              /\ req[q].pc = "write" /\ req'[q].pc = "done"
              /\ req'[q].txn.fault = NoFault
              /\ req[q].uniq_key = req[r].uniq_key) =>
                 /\ req'[q].resp.statusCode = 409
                 /\ store' = store ]_vars
    /\ [][ Markers \subseteq {it \in store' : it.type = "uniqueness_marker"} ]_vars
    /\ [](\A r \in Requests :
            (req[r].pc = "done" /\ Status(r) = 201) =>
               \E m \in Markers : /\ m.appointment_id = req[r].uniq_key
                                  /\ m.ref_appointment_id = req[r].appointment_id)

\* the appointment of a request answered 201 is cancelled, and another
\* request with its fingerprint has been answered 409 by the store
WitC28 ==
    \E r, q \in Requests :
        /\ req[r].pc = "done" /\ Status(r) = 201
        /\ \E rec \in Records : /\ rec.appointment_id = req[r].appointment_id
                                /\ rec.status = "cancelled"
        /\ req[q].pc = "done" /\ Status(q) = 409
        /\ req[q].txn.fault = NoFault
        /\ req[q].uniq_key = req[r].uniq_key
        /\ PayloadOf(q) /= PayloadOf(r)

----------------------------------------------------------------------------
(* Properties of the Dispatch Log and of the channels *)

Terminal == {"sent", "skipped", "failed"}

\* C15: every claimed notification_id has its one entry, inserted once;
\* an entry is inserted in status processing with no attempt, is changed only
\* while in status processing and then moves to sent, skipped or failed, and
\* its attempts count never decreases.
ThmC15 ==
    /\ [](\A n \in DOMAIN hist :
            hist[n].claimers /= {} =>
               /\ n \in DOMAIN sendlog
               /\ Cardinality(hist[n].claimers) = 1)
    /\ [][ /\ DOMAIN sendlog \subseteq DOMAIN sendlog'
           /\ \A n \in DOMAIN sendlog' \ DOMAIN sendlog :
                 sendlog'[n].status = "processing" /\ sendlog'[n].attempts = 0
           /\ \A n \in DOMAIN sendlog :
                 /\ sendlog'[n].attempts >= sendlog[n].attempts
                 /\ sendlog'[n] /= sendlog[n] =>
                       /\ sendlog[n].status = "processing"
                       /\ sendlog'[n].status \in Terminal ]_vars

\* n1 was sent, delivered again and turned away, its entry as it was
WitC15 ==
    /\ "n1" \in DOMAIN sendlog
    /\ sendlog["n1"].status = "sent" /\ sendlog["n1"].attempts = 1
    /\ \E c \in Consumers :
          cons[c].last = "duplicate_of_sent" /\ cons[c].inv = 2

\* the user and the type of a message, read from its body
UserOf(msg) == msg.body["user_id"]
TypeOf(msg) ==
    IF "type" \in DOMAIN msg.body THEN msg.body["type"] ELSE "appointment.reminder"

\* channel ch is switched on in the preferences item of user u
GloballyOn(u, ch) ==
    /\ u \in DOMAIN prefs
    /\ "channels" \in DOMAIN prefs[u]
    /\ ch \in DOMAIN prefs[u]["channels"]
    /\ prefs[u]["channels"][ch]

\* channel ch is switched off for notifications of type t in the item of u
OverriddenOff(u, t, ch) ==
    /\ u \in DOMAIN prefs
    /\ "types" \in DOMAIN prefs[u]
    /\ t \in DOMAIN prefs[u]["types"]
    /\ ch \in DOMAIN prefs[u]["types"][t]
    /\ ~prefs[u]["types"][t][ch]

Allowed(msg, ch) ==
    GloballyOn(UserOf(msg), ch) /\ ~OverriddenOff(UserOf(msg), TypeOf(msg), ch)

Has(msg, key) == key \in DOMAIN msg.body /\ msg.body[key] /= ""

\* a channel of the message is allowed and has its contact data
Eligible(msg) ==
    \/ Allowed(msg, "email") /\ Has(msg, "email")
    \/ Allowed(msg, "sms") /\ Has(msg, "phone_e164")

\* consumer c ends the handling of a claimed record, no sender having raised
\* and the store having accepted the update
EndsClean(c) ==
    /\ cons[c].pc = "update" /\ ~cons[c].sender_raised
    /\ cons'[c] /= cons[c] /\ cons'[c].pc /= "fail_update"

\* C16: when a claimed message has been handled and no sender raised, the
\* update leaves the entry with one attempt more and in status sent if a
\* channel was allowed with its contact data present (its send having
\* succeeded), else skipped; an entry in status skipped has had no sender
\* invoked for it.
ThmC16 ==
    /\ [][ \A c \in Consumers :
             EndsClean(c) =>
                LET n == cons[c].notif_id
                    msg == CurMsg(cons[c])
                IN  /\ sendlog'[n].attempts = sendlog[n].attempts + 1
                    /\ sendlog'[n].status
                          = IF Eligible(msg) THEN "sent" ELSE "skipped"
                    /\ Eligible(msg) <=>
                          \E ch \in Channels : sends[msg.name][ch] > 0
                    /\ Eligible(msg) <=> HistOf(hist, n).senders /= {} ]_vars
    /\ [](\A n \in DOMAIN sendlog :
            sendlog[n].status = "skipped" =>
                /\ HistOf(hist, n).senders = {}
                /\ sendlog[n].provider = {})

\* the message for a user who allows push only ended skipped, and the one
\* sent over sms alone ended sent
WitC16 ==
    /\ "n6" \in DOMAIN sendlog /\ sendlog["n6"].status = "skipped"
    /\ sendlog["n6"].attempts = 1
    /\ "n4" \in DOMAIN sendlog /\ sendlog["n4"].status = "sent"
    /\ sendlog["n4"].attempts = 1 /\ sendlog["n4"].provider = {"sms_msg_id"}

\* C17: a sender is called only for a channel switched on in the user's
\* preferences and not switched off for the type of the message; for a user
\* without preferences no channel is allowed, no sender is called and the
\* entry ends as skipped (the store accepting the update).
ThmC17 ==
    /\ [](\A c \in Consumers :
            /\ cons[c].pc = "email" => Allowed(CurMsg(cons[c]), "email")
            /\ cons[c].pc = "sms" => Allowed(CurMsg(cons[c]), "sms")
            /\ (cons[c].pc \in InFlight
                   /\ UserOf(CurMsg(cons[c])) \notin DOMAIN prefs) =>
                  /\ cons[c].channels_allowed = {}
                  /\ cons[c].pc \in {"update", "fail_update"}
                  /\ HistOf(hist, cons[c].notif_id).senders = {})
    /\ [][ \A c \in Consumers :
             (cons[c].pc \in InFlight
                 /\ UserOf(CurMsg(cons[c])) \notin DOMAIN prefs
                 /\ EndsClean(c)) =>
                sendlog'[cons[c].notif_id].status = "skipped" ]_vars
    /\ [][ \A m \in Messages : \A ch \in Channels :
             sends'[m.name][ch] /= sends[m.name][ch] => Allowed(m, ch) ]_vars

\* the promo message went out over sms and not over email, and the message
\* of the user without preferences ended skipped
WitC17 ==
    /\ sends["D"]["sms"] = 1 /\ sends["D"]["email"] = 0
    /\ "n3" \in DOMAIN sendlog /\ sendlog["n3"].status = "skipped"
    /\ sends["C"]["email"] = 0 /\ sends["C"]["sms"] = 0

\* C18: a record whose body is not JSON or has no user_id is dropped: the
\* step changes no entry, sends nothing and does not raise, and handler goes
\* on with the next record of the batch (returns after the last); no entry
\* ever exists and nothing is ever sent for such a message.
ThmC18 ==
    /\ [][ \A c \in Consumers :
             (cons[c].pc = "record" /\ ~WellFormed(CurMsg(cons[c]))
                 /\ cons'[c] /= cons[c]) =>
                /\ sendlog' = sendlog /\ sends' = sends /\ hist' = hist
                /\ cons'[c].pc = IF Len(cons[c].todo) = 1 THEN "returned"
                                 ELSE "record"
                /\ cons'[c].todo = Tail(cons[c].todo)
                /\ cons'[c].fault = None ]_vars
    /\ [](\A m \in Messages :
            ~WellFormed(m) =>
               /\ \A ch \in Channels : sends[m.name][ch] = 0
               /\ Get(m.body, "notification_id", None) \notin DOMAIN sendlog)

\* the record without user_id was dropped and the record after it, which
\* comes in that batch alone, was handled to its end
WitC18 ==
    /\ "n2" \notin DOMAIN sendlog
    /\ "n5" \in DOMAIN sendlog /\ sendlog["n5"].status = "skipped"
    /\ cons[1].pc = "returned" /\ cons[1].last = "skipped"

\* C20: when the handling of a message has ended with a sender raising (the
\* store accepting the update), the provider map of its entry holds the id
\* of every send that returned one.
CexC20 ==
    \A c \in Consumers :
        (cons[c].pc = "raised" /\ cons[c].sender_raised /\ cons[c].fault = None) =>
            cons[c].provider_ids \subseteq sendlog[cons[c].notif_id].provider

----------------------------------------------------------------------------
(* Properties of the end of a delivery and of the attempts count *)

\* the invocations that inserted the entry of n and have not ended
Creating(n) ==
    {c \in Consumers : /\ cons[c].pc \in InFlight
                       /\ cons[c].notif_id = n
                       /\ cons[c].inv \in HistOf(hist, n).claimers}

\* C26: no entry is left in status processing once the delivery that
\* inserted it has ended: when handler has returned or raised after its
\* conditional insert, the entry is in status sent, skipped or failed, also
\* when the preference lookup, the template lookup or a log update raised.
CexC26 ==
    \A n \in DOMAIN sendlog :
        sendlog[n].status = "processing" => Creating(n) /= {}

\* C27: the attempts count of every entry is 0 or 1: over any sequence of
\* deliveries of a notification_id at most one delivery increments it, and
\* that delivery is the one that inserted the entry (a store call that
\* raises having changed nothing).
ThmC27 ==
    \A n \in DOMAIN sendlog :
        /\ sendlog[n].attempts \in {0, 1}
        /\ Cardinality(HistOf(hist, n).updaters) = sendlog[n].attempts
        /\ HistOf(hist, n).updaters \subseteq HistOf(hist, n).claimers

\* the first delivery of n1 failed in a sender and counted one attempt; the
\* second delivery was turned away and the count is still one
WitC27 ==
    /\ "n1" \in DOMAIN sendlog
    /\ sendlog["n1"].status = "failed" /\ sendlog["n1"].attempts = 1
    /\ HistOf(hist, "n1").updaters = {1}
    /\ \E c \in Consumers :
          cons[c].inv = 2 /\ cons[c].last = "duplicate_of_failed"

----------------------------------------------------------------------------
(* Properties of the services table and of the backfill *)

\* C21: a Service created without an explicit priority has priority MEDIUM
\* immediately after its creation.
CexC21 ==
    [][ \A pk \in DOMAIN services' \ DOMAIN services :
          services'[pk].given = NotGiven => services'[pk].priority = "MEDIUM" ]_vars

\* C30: the backfill changes the priority only of rows whose priority is
\* NULL: no step of it replaces a non-NULL priority by MEDIUM, also when
\* another writer has set the priority of a row between the read of the
\* batch of primary keys and the update of that batch.
CexC30 ==
    [][ \A pk \in DOMAIN services :
          (backfill' /= backfill /\ services'[pk].priority /= services[pk].priority)
              => services[pk].priority = NULL ]_vars

\* the backfill ends, the table holding at most MaxServices rows
BackfillTerminates == <>(backfill.pc = "done")

\* the exists() query that ends the loop finds no NULL row
NoNullAtEnd ==
    [][ (backfill.pc /= "done" /\ backfill'.pc = "done")
            => NullPks(services') = {} ]_vars

\* a turn of the loop, from its exists() query to the end of its update,
\* ends with fewer NULL rows than it began with
TurnDecreases ==
    [][ (backfill.pc = "update" /\ backfill'.pc = "exists")
            => Cardinality(NullPks(services')) < backfill.nulls ]_vars

\* C31: the backfill terminates when only finitely many services with NULL
\* priority are ever created; when it terminates no service has a NULL
\* priority; and each turn of its loop strictly decreases the number of
\* services with NULL priority.
CexC31 == BackfillTerminates /\ NoNullAtEnd /\ TurnDecreases

----------------------------------------------------------------------------
(* Properties of the weather refresh *)

\* the locations of the current run whose cache write succeeded, and those
\* whose fetch or cache write raised
CachedNow == {p \in {"P1", "P2", "P3", "P4"} : <<wx.run, p>> \in wx.cached}
FailedNow == {p \in {"P1", "P2", "P3", "P4"} : <<wx.run, p>> \in wx.failed}

\* C29: in a run of the weather refresh, next_check_at of a tracking row is
\* changed only after the cache write for the location of the row has
\* succeeded in that run; the step in which the fetch or the cache write of
\* a location raises, and every other step of that run, leaves the rows of
\* that location as they were; every location of the run is processed, the
\* failed ones included; and refreshed_locations is the number of locations
\* whose cache write succeeded.
ThmC29 ==
    /\ [][ \A tid \in DOMAIN tracking :
             tracking'[tid] /= tracking[tid] =>
                /\ wx'.run = wx.run
                /\ tracking[tid].location \in CachedNow
                /\ tracking[tid].location \notin FailedNow
                /\ wcache[tracking[tid].location].updated_at = wx.now ]_vars
    /\ [][ wx'.failed /= wx.failed => tracking' = tracking ]_vars
    /\ [](CachedNow \cap FailedNow = {})
    /\ [](wx.pc = "returned" =>
            /\ wx.returned = Cardinality(CachedNow)
            /\ CachedNow \cup FailedNow =
                  DOMAIN group_by_location_with_horizon(tracking, wx.now,
                                                        wx.due_rows))

\* a run has returned 1: the fetch or the cache write of P1 raised and its
\* rows are as they were, P2 was cached and its row moved by three hours
WitC29 ==
    /\ wx.pc = "returned" /\ wx.run = 1 /\ wx.returned = 1
    /\ FailedNow = {"P1"} /\ CachedNow = {"P2"}
    /\ tracking["t1"] = TrackingRows["t1"] /\ tracking["t2"] = TrackingRows["t2"]
    /\ tracking["t3"].next_check_at = 3

====
